---- MODULE Spec2Model ----
(***************************************************************************)
(* EasyI2C (easy_i2c.py): a parameter-validating pass-through to the       *)
(* machine.I2C driver.  Every method is one action.  The driver is a       *)
(* double that records each invocation together with its answer (success   *)
(* with bytes, or OSError), the answer being chosen by the environment.    *)
(***************************************************************************)
EXTENDS Integers, Sequences, FiniteSets, TLC

VARIABLES last, wire, written

vars == <<last, wire, written>>

(***************************************************************************)
(* Shapes of the values in the state                                       *)
(***************************************************************************)
(* an element of a Python list: an integer, or some other object *)
Elem(isint, val) == [isint |-> isint, val |-> val]

(* a Python value passed as data: its type and its elements *)
PyData(type, items) == [type |-> type, items |-> items]

(* a return value: None, an int, a bytes object or a list *)
Ret(kind, num, elems) == [kind |-> kind, num |-> num, elems |-> elems]

(* one invocation of the driver as the double records it: the primitive,   *)
(* its arguments (buf for writes, count for reads) and the driver's answer *)
DrvCall(prim, addr, reg, buf, count, fail, bytes) ==
    [prim |-> prim, addr |-> addr, reg |-> reg, buf |-> buf, count |-> count,
     fail |-> fail, bytes |-> bytes]

(* the driver's answer to an invocation *)
Drv(fail, bytes) == [fail |-> fail, bytes |-> bytes]

(* one printed line *)
Line(text, hexaddr, hexreg) == [text |-> text, hexaddr |-> hexaddr, hexreg |-> hexreg]

(* a method call: its arguments and its outcome o *)
CallRec(method, device_addr, reg_addr, value, byteorder, data, nbytes, verbose, o) ==
    [method |-> method, device_addr |-> device_addr, reg_addr |-> reg_addr,
     value |-> value, byteorder |-> byteorder, data |-> data,
     nbytes |-> nbytes, verbose |-> verbose,
     calls |-> o.calls, out |-> o.out, events |-> o.events,
     raised |-> o.raised, err |-> o.err, ret |-> o.ret]

(* the outcome of a method call: the driver invocations made, the lines    *)
(* printed, the order of what happened, the exception class and the raise  *)
(* site ("none" when the method returned), the value returned              *)
Outcome(calls, out, events, raised, err, ret) ==
    [calls |-> calls, out |-> out, events |-> events,
     raised |-> raised, err |-> err, ret |-> ret]

(* the result of converting data to bytes *)
Converted(buf, raised, err) == [buf |-> buf, raised |-> raised, err |-> err]

(***************************************************************************)
(* Bounds and sample inputs                                                *)
(***************************************************************************)
MaxLen == 2

MaxScan == 2

AddrSamples == {-1, 0, 127, 128}

RegSamples == {1, 3}

ByteValueSamples == {-1, 0, 255, 256}

WordValueSamples == {-1, 0, 1, 255, 256, 4660, 32768, 43981, 65280, 65535, 65536}

OrderSamples == {"big", "little", "BIG"}

WireBytes == {0, 255}

ScanAddrs == {60, 64}

SeqsOfLen(S, k) == [1..k -> S]

SeqsUpTo(S, k) == UNION {SeqsOfLen(S, j) : j \in 0..k}

ListElems(S) == {Elem(TRUE, x) : x \in S} \cup {Elem(FALSE, 0)}

ByteElems(S) == {Elem(TRUE, x) : x \in S}

DataSamples(k) ==
    {PyData("list", s) : s \in SeqsUpTo(ListElems({0, 255, 256}), k)}
    \cup {PyData("bytes", s) : s \in SeqsUpTo(ByteElems(WireBytes), k)}
    \cup {PyData(ty, <<Elem(TRUE, 0)>>) : ty \in {"bytearray", "tuple"}}
    \cup {PyData("str", <<>>)}

NoData == PyData("NoneType", <<>>)

NoneRet == Ret("None", 0, <<>>)

IntRet(x) == Ret("int", x, <<>>)

BytesRet(s) == Ret("bytes", 0, s)

ListRet(s) == Ret("list", 0, s)

(***************************************************************************)
(* Integer operators of the code: >>, <<, &, |                             *)
(***************************************************************************)
RECURSIVE BitAnd(_, _)
BitAnd(x, y) ==
    IF x = 0 \/ y = 0 THEN 0
    ELSE (IF x % 2 = 1 /\ y % 2 = 1 THEN 1 ELSE 0) + 2 * BitAnd(x \div 2, y \div 2)

RECURSIVE BitOr(_, _)
BitOr(x, y) ==
    IF x = 0 THEN y
    ELSE IF y = 0 THEN x
    ELSE (IF x % 2 = 1 \/ y % 2 = 1 THEN 1 ELSE 0) + 2 * BitOr(x \div 2, y \div 2)

Shr8(x) == x \div 256

Shl8(x) == x * 256

(***************************************************************************)
(* f"{x:02X}": upper-case hexadecimal, zero-padded to two digits           *)
(***************************************************************************)
HexChars == <<"0", "1", "2", "3", "4", "5", "6", "7",
              "8", "9", "A", "B", "C", "D", "E", "F">>

RECURSIVE HexDigitsOf(_)
HexDigitsOf(x) ==
    IF x < 16 THEN <<HexChars[x + 1]>>
    ELSE HexDigitsOf(x \div 16) \o <<HexChars[(x % 16) + 1]>>

Hex02(x) ==
    LET d == HexDigitsOf(x) IN IF Len(d) < 2 THEN <<"0">> \o d ELSE d

(***************************************************************************)
(* Outcomes                                                                *)
(***************************************************************************)
Raised(raised, err) == Outcome(<<>>, <<>>, <<"raise">>, raised, err, NoneRet)

Returned(call, ret) ==
    Outcome(<<call>>, <<>>, <<"driver", "return">>, "none", "none", ret)

(***************************************************************************)
(* _check_addr: TRUE when the address passes (the method returns), FALSE   *)
(* when it raises ValueError                                               *)
(***************************************************************************)
(* an address check that lets 128 through *)
check_addr_upto128(device_addr) == 0 <= device_addr /\ device_addr <= 128

check_addr(device_addr) == 0 <= device_addr /\ device_addr <= 127

(* write_byte: "if not 0 <= value <= 255: raise" *)
byte_in_range(value) == 0 <= value /\ value <= 255

(* a value check that lets 65536 through *)
word_in_range_upto65536(value) == 0 <= value /\ value <= 65536

(* write_word: "if not 0 <= value <= 65535: raise" *)
word_in_range(value) == 0 <= value /\ value <= 65535

(* packing with the two branches exchanged *)
pack_word_swapped(value, byteorder) ==
    IF byteorder = "big"
    THEN <<BitAnd(value, 255), BitAnd(Shr8(value), 255)>>
    ELSE <<BitAnd(Shr8(value), 255), BitAnd(value, 255)>>

(* packing that falls back to big-endian for an unknown tag *)
pack_word_default_big(value, byteorder) ==
    IF byteorder = "little"
    THEN <<BitAnd(value, 255), BitAnd(Shr8(value), 255)>>
    ELSE <<BitAnd(Shr8(value), 255), BitAnd(value, 255)>>

(* write_word: the two-element list handed to bytes() *)
pack_word(value, byteorder) ==
    IF byteorder = "big"
    THEN <<BitAnd(Shr8(value), 255), BitAnd(value, 255)>>
    ELSE <<BitAnd(value, 255), BitAnd(Shr8(value), 255)>>

(* decoding that ignores the byte order *)
unpack_word_always_big(data, byteorder) == BitOr(Shl8(data[1]), data[2])

(* read_word: the value decoded from the two bytes read *)
unpack_word(data, byteorder) ==
    IF byteorder = "big"
    THEN BitOr(Shl8(data[1]), data[2])
    ELSE BitOr(Shl8(data[2]), data[1])

(***************************************************************************)
(* bytes(list): the first element that is not an integer raises TypeError, *)
(* the first integer outside 0..255 raises ValueError                      *)
(***************************************************************************)
BadElem(e) == ~e.isint \/ e.val < 0 \/ e.val > 255

bytes_of(items) ==
    LET bad == {j \in 1..Len(items) : BadElem(items[j])} IN
    IF bad = {} THEN Converted([j \in 1..Len(items) |-> items[j].val], "none", "none")
    ELSE LET first == CHOOSE j \in bad : \A k \in bad : j <= k IN
         IF ~items[first].isint
         THEN Converted(<<>>, "TypeError", "BytesConversion")
         ELSE Converted(<<>>, "ValueError", "BytesConversion")

(* a conversion without the isinstance check on non-lists *)
coerce_data_unchecked(data) ==
    IF data.type = "list" THEN bytes_of(data.items)
    ELSE Converted([j \in 1..Len(data.items) |-> data.items[j].val], "none", "none")

(* write_bytes / write_direct: the isinstance ladder on data *)
coerce_data(data) ==
    IF data.type = "list" THEN bytes_of(data.items)
    ELSE IF data.type # "bytes" THEN Converted(<<>>, "ValueError", "InvalidData")
    ELSE Converted([j \in 1..Len(data.items) |-> data.items[j].val], "none", "none")

(***************************************************************************)
(* The driver primitives as the double records them.  drv is the driver's  *)
(* answer; a failed invocation supplies no bytes.                          *)
(***************************************************************************)
Supplied(drv) == IF drv.fail THEN <<>> ELSE drv.bytes

i2c_scan(drv) == DrvCall("scan", 0, 0, <<>>, 0, drv.fail, Supplied(drv))

i2c_writeto_mem(addr, reg, buf, drv) ==
    DrvCall("writeto_mem", addr, reg, buf, 0, drv.fail, <<>>)

i2c_readfrom_mem(addr, reg, count, drv) ==
    DrvCall("readfrom_mem", addr, reg, <<>>, count, drv.fail, Supplied(drv))

i2c_writeto(addr, buf, drv) ==
    DrvCall("writeto", addr, 0, buf, 0, drv.fail, <<>>)

i2c_readfrom(addr, count, drv) ==
    DrvCall("readfrom", addr, 0, <<>>, count, drv.fail, Supplied(drv))

(***************************************************************************)
(* except OSError: print(...); raise                                       *)
(***************************************************************************)
(* a handler that tries the driver once more before giving up *)
on_oserror_retry(call, text, device_addr, hexreg) ==
    Outcome(<<call, call>>, <<Line(text, Hex02(device_addr), hexreg)>>,
            <<"driver", "driver", "print", "raise">>, "OSError", "TransportError", NoneRet)

on_oserror(call, text, device_addr, hexreg) ==
    Outcome(<<call>>, <<Line(text, Hex02(device_addr), hexreg)>>,
            <<"driver", "print", "raise">>, "OSError", "TransportError", NoneRet)

(***************************************************************************)
(* The methods.  drv is the driver's answer to the invocation the method   *)
(* makes, if it makes one.                                                 *)
(***************************************************************************)
(* a scan that reports whether asked to or not *)
scan_always_verbose(verbose, drv) ==
    LET call == i2c_scan(drv)
        devices == drv.bytes
        report == IF devices # <<>>
                  THEN <<Line("devices_found", <<>>, <<>>)>>
                       \o [j \in 1..Len(devices) |->
                             Line("device", Hex02(devices[j]), <<>>)]
                  ELSE <<Line("no_devices", <<>>, <<>>)>>
    IN  IF drv.fail
        THEN Outcome(<<call>>, <<>>, <<"driver", "raise">>,
                     "OSError", "TransportError", NoneRet)
        ELSE Outcome(<<call>>, report, <<"driver", "print", "return">>,
                     "none", "none", ListRet(devices))

scan(verbose, drv) ==
    LET call == i2c_scan(drv)
        devices == drv.bytes
        report == IF devices # <<>>
                  THEN <<Line("devices_found", <<>>, <<>>)>>
                       \o [j \in 1..Len(devices) |->
                             Line("device", Hex02(devices[j]), <<>>)]
                  ELSE <<Line("no_devices", <<>>, <<>>)>>
    IN  IF drv.fail
        THEN Outcome(<<call>>, <<>>, <<"driver", "raise">>,
                     "OSError", "TransportError", NoneRet)
        ELSE IF verbose
        THEN Outcome(<<call>>, report, <<"driver", "print", "return">>,
                     "none", "none", ListRet(devices))
        ELSE Returned(call, ListRet(devices))

write_byte(device_addr, reg_addr, value, drv) ==
    IF ~check_addr(device_addr) THEN Raised("ValueError", "InvalidAddress")
    ELSE IF ~byte_in_range(value) THEN Raised("ValueError", "InvalidValue")
    ELSE LET call == i2c_writeto_mem(device_addr, reg_addr, <<value>>, drv) IN
         IF drv.fail
         THEN on_oserror(call, "write_byte_failed", device_addr, Hex02(reg_addr))
         ELSE Returned(call, NoneRet)

read_byte(device_addr, reg_addr, drv) ==
    IF ~check_addr(device_addr) THEN Raised("ValueError", "InvalidAddress")
    ELSE LET call == i2c_readfrom_mem(device_addr, reg_addr, 1, drv) IN
         IF drv.fail
         THEN on_oserror(call, "read_byte_failed", device_addr, Hex02(reg_addr))
         ELSE Returned(call, IntRet(drv.bytes[1]))

write_word(device_addr, reg_addr, value, byteorder, drv) ==
    IF ~check_addr(device_addr) THEN Raised("ValueError", "InvalidAddress")
    ELSE IF ~word_in_range(value) THEN Raised("ValueError", "InvalidValue")
    ELSE LET data == pack_word(value, byteorder)
             call == i2c_writeto_mem(device_addr, reg_addr, data, drv)
         IN  IF drv.fail
             THEN on_oserror(call, "write_word_failed", device_addr, Hex02(reg_addr))
             ELSE Returned(call, NoneRet)

read_word(device_addr, reg_addr, byteorder, drv) ==
    IF ~check_addr(device_addr) THEN Raised("ValueError", "InvalidAddress")
    ELSE LET call == i2c_readfrom_mem(device_addr, reg_addr, 2, drv) IN
         IF drv.fail
         THEN on_oserror(call, "read_word_failed", device_addr, Hex02(reg_addr))
         ELSE Returned(call, IntRet(unpack_word(drv.bytes, byteorder)))

write_bytes(device_addr, reg_addr, data, drv) ==
    IF ~check_addr(device_addr) THEN Raised("ValueError", "InvalidAddress")
    ELSE LET conv == coerce_data(data)
             call == i2c_writeto_mem(device_addr, reg_addr, conv.buf, drv)
         IN  IF conv.raised # "none" THEN Raised(conv.raised, conv.err)
             ELSE IF drv.fail
             THEN on_oserror(call, "write_bytes_failed", device_addr, Hex02(reg_addr))
             ELSE Returned(call, NoneRet)

(* a read that drops the last byte the driver supplied *)
read_bytes_short(device_addr, reg_addr, nbytes, drv) ==
    IF ~check_addr(device_addr) THEN Raised("ValueError", "InvalidAddress")
    ELSE LET call == i2c_readfrom_mem(device_addr, reg_addr, nbytes, drv) IN
         IF drv.fail
         THEN on_oserror(call, "read_bytes_failed", device_addr, Hex02(reg_addr))
         ELSE Returned(call, BytesRet(SubSeq(drv.bytes, 1, Len(drv.bytes) - 1)))

read_bytes(device_addr, reg_addr, nbytes, drv) ==
    IF ~check_addr(device_addr) THEN Raised("ValueError", "InvalidAddress")
    ELSE LET call == i2c_readfrom_mem(device_addr, reg_addr, nbytes, drv) IN
         IF drv.fail
         THEN on_oserror(call, "read_bytes_failed", device_addr, Hex02(reg_addr))
         ELSE Returned(call, BytesRet(drv.bytes))

write_direct(device_addr, data, drv) ==
    IF ~check_addr(device_addr) THEN Raised("ValueError", "InvalidAddress")
    ELSE LET conv == coerce_data(data)
             call == i2c_writeto(device_addr, conv.buf, drv)
         IN  IF conv.raised # "none" THEN Raised(conv.raised, conv.err)
             ELSE IF drv.fail
             THEN on_oserror(call, "write_direct_failed", device_addr, <<>>)
             ELSE Returned(call, NoneRet)

read_direct(device_addr, nbytes, drv) ==
    IF ~check_addr(device_addr) THEN Raised("ValueError", "InvalidAddress")
    ELSE LET call == i2c_readfrom(device_addr, nbytes, drv) IN
         IF drv.fail
         THEN on_oserror(call, "read_direct_failed", device_addr, <<>>)
         ELSE Returned(call, BytesRet(drv.bytes))

(***************************************************************************)
(* State: last is the record of the most recent call; wire is the write    *)
(* the driver accepted last and written the method call that made it (both *)
(* used by the echoing double only).                                       *)
(***************************************************************************)
NoCall ==
    CallRec("none", 0, 0, 0, "big", NoData, 0, FALSE,
            Outcome(<<>>, <<>>, <<>>, "none", "none", NoneRet))

NoWire == DrvCall("none", 0, 0, <<>>, 0, FALSE, <<>>)

Init ==
    /\ last = NoCall
    /\ wire = NoWire
    /\ written = NoCall

(* the driver answers a write with success or OSError *)
WriteResponses(prim) == {Drv(fail, <<>>) : fail \in BOOLEAN}

(* the driver answers a read of count bytes with OSError or count bytes *)
StubResponses(count) ==
    {Drv(TRUE, <<>>)} \cup {Drv(FALSE, s) : s \in SeqsOfLen(WireBytes, count)}

(* the driver answers a scan with OSError or the devices that acknowledged *)
ScanResponses(k) ==
    {Drv(TRUE, <<>>)} \cup {Drv(FALSE, s) : s \in SeqsUpTo(ScanAddrs, k)}

(***************************************************************************)
(* Calls against a driver double without memory                            *)
(***************************************************************************)
Scan ==
    \E verbose \in BOOLEAN, drv \in ScanResponses(MaxScan) :
        /\ last' = CallRec("scan", 0, 0, 0, "big", NoData, 0, verbose,
                     scan(verbose, drv))
        /\ UNCHANGED <<wire, written>>

WriteByte ==
    \E a \in AddrSamples, r \in RegSamples, v \in ByteValueSamples,
       drv \in WriteResponses("writeto_mem") :
        /\ last' = CallRec("write_byte", a, r, v, "big", NoData, 0, FALSE,
                     write_byte(a, r, v, drv))
        /\ UNCHANGED <<wire, written>>

ReadByte ==
    \E a \in AddrSamples, r \in RegSamples :
      \E drv \in StubResponses(1) :
        /\ last' = CallRec("read_byte", a, r, 0, "big", NoData, 0, FALSE,
                     read_byte(a, r, drv))
        /\ UNCHANGED <<wire, written>>

WriteWord ==
    \E a \in AddrSamples, r \in RegSamples, v \in WordValueSamples,
       bo \in OrderSamples, drv \in WriteResponses("writeto_mem") :
        /\ last' = CallRec("write_word", a, r, v, bo, NoData, 0, FALSE,
                     write_word(a, r, v, bo, drv))
        /\ UNCHANGED <<wire, written>>

ReadWord ==
    \E a \in AddrSamples, r \in RegSamples, bo \in OrderSamples :
      \E drv \in StubResponses(2) :
        /\ last' = CallRec("read_word", a, r, 0, bo, NoData, 0, FALSE,
                     read_word(a, r, bo, drv))
        /\ UNCHANGED <<wire, written>>

WriteBytes ==
    \E a \in AddrSamples, r \in RegSamples, d \in DataSamples(MaxLen),
       drv \in WriteResponses("writeto_mem") :
        /\ last' = CallRec("write_bytes", a, r, 0, "big", d, 0, FALSE,
                     write_bytes(a, r, d, drv))
        /\ UNCHANGED <<wire, written>>

ReadBytes ==
    \E a \in AddrSamples, r \in RegSamples, n \in 0..MaxLen :
      \E drv \in StubResponses(n) :
        /\ last' = CallRec("read_bytes", a, r, 0, "big", NoData, n, FALSE,
                     read_bytes(a, r, n, drv))
        /\ UNCHANGED <<wire, written>>

WriteDirect ==
    \E a \in AddrSamples, d \in DataSamples(MaxLen),
       drv \in WriteResponses("writeto") :
        /\ last' = CallRec("write_direct", a, 0, 0, "big", d, 0, FALSE,
                     write_direct(a, d, drv))
        /\ UNCHANGED <<wire, written>>

ReadDirect ==
    \E a \in AddrSamples, n \in 0..MaxLen :
      \E drv \in StubResponses(n) :
        /\ last' = CallRec("read_direct", a, 0, 0, "big", NoData, n, FALSE,
                     read_direct(a, n, drv))
        /\ UNCHANGED <<wire, written>>

Next ==
    \/ Scan
    \/ WriteByte
    \/ ReadByte
    \/ WriteWord
    \/ ReadWord
    \/ WriteBytes
    \/ ReadBytes
    \/ WriteDirect
    \/ ReadDirect

Spec == Init /\ [][Next]_vars

(***************************************************************************)
(* A write followed by a read against an echoing driver double: the double *)
(* remembers the write it accepted and may answer a read of the same       *)
(* place and length with that payload.                                     *)
(***************************************************************************)
EchoResponses(prim, addr, reg, count) ==
    StubResponses(count)
    \cup (IF /\ prim = "readfrom_mem" => (wire.prim = "writeto_mem" /\ wire.reg = reg)
             /\ prim = "readfrom" => wire.prim = "writeto"
             /\ wire.addr = addr
             /\ Len(wire.buf) = count
          THEN {Drv(FALSE, wire.buf)} ELSE {})

(* the driver was invoked and did not fail *)
Accepted(rec) == rec.calls # <<>> /\ ~rec.calls[Len(rec.calls)].fail

(* the double's memory after the call rec *)
WireAfter(rec) == IF Accepted(rec) THEN rec.calls[Len(rec.calls)] ELSE wire

WrittenAfter(rec) == IF Accepted(rec) THEN rec ELSE written

(* the write of the scenario: the first call on a fresh double *)
EchoWriteByte ==
    \E a \in AddrSamples, r \in RegSamples, v \in ByteValueSamples,
       drv \in WriteResponses("writeto_mem") :
        LET rec == CallRec("write_byte", a, r, v, "big", NoData, 0, FALSE,
                          write_byte(a, r, v, drv))
        IN  /\ last.method = "none"
            /\ last' = rec
            /\ wire' = WireAfter(rec)
            /\ written' = WrittenAfter(rec)

(* the read of the scenario: the call right after an accepted write *)
EchoReadByte ==
    \E a \in AddrSamples, r \in RegSamples :
      \E drv \in EchoResponses("readfrom_mem", a, r, 1) :
        /\ wire.prim # "none"
        /\ last = written
        /\ last' = CallRec("read_byte", a, r, 0, "big", NoData, 0, FALSE,
                     read_byte(a, r, drv))
        /\ UNCHANGED <<wire, written>>

(* the write of the scenario: the first call on a fresh double *)
EchoWriteWord ==
    \E a \in AddrSamples, r \in RegSamples, v \in WordValueSamples,
       bo \in OrderSamples, drv \in WriteResponses("writeto_mem") :
        LET rec == CallRec("write_word", a, r, v, bo, NoData, 0, FALSE,
                          write_word(a, r, v, bo, drv))
        IN  /\ last.method = "none"
            /\ last' = rec
            /\ wire' = WireAfter(rec)
            /\ written' = WrittenAfter(rec)

(* the read of the scenario: the call right after an accepted write *)
EchoReadWord ==
    \E a \in AddrSamples, r \in RegSamples, bo \in OrderSamples :
      \E drv \in EchoResponses("readfrom_mem", a, r, 2) :
        /\ wire.prim # "none"
        /\ last = written
        /\ last' = CallRec("read_word", a, r, 0, bo, NoData, 0, FALSE,
                     read_word(a, r, bo, drv))
        /\ UNCHANGED <<wire, written>>

(* the write of the scenario: the first call on a fresh double *)
EchoWriteBytes ==
    \E a \in AddrSamples, r \in RegSamples, d \in DataSamples(MaxLen),
       drv \in WriteResponses("writeto_mem") :
        LET rec == CallRec("write_bytes", a, r, 0, "big", d, 0, FALSE,
                          write_bytes(a, r, d, drv))
        IN  /\ last.method = "none"
            /\ last' = rec
            /\ wire' = WireAfter(rec)
            /\ written' = WrittenAfter(rec)

(* the read of the scenario: the call right after an accepted write *)
EchoReadBytes ==
    \E a \in AddrSamples, r \in RegSamples, n \in 0..MaxLen :
      \E drv \in EchoResponses("readfrom_mem", a, r, n) :
        /\ wire.prim # "none"
        /\ last = written
        /\ last' = CallRec("read_bytes", a, r, 0, "big", NoData, n, FALSE,
                     read_bytes(a, r, n, drv))
        /\ UNCHANGED <<wire, written>>

(* the write of the scenario: the first call on a fresh double *)
EchoWriteDirect ==
    \E a \in AddrSamples, d \in DataSamples(MaxLen),
       drv \in WriteResponses("writeto") :
        LET rec == CallRec("write_direct", a, 0, 0, "big", d, 0, FALSE,
                          write_direct(a, d, drv))
        IN  /\ last.method = "none"
            /\ last' = rec
            /\ wire' = WireAfter(rec)
            /\ written' = WrittenAfter(rec)

(* the read of the scenario: the call right after an accepted write *)
EchoReadDirect ==
    \E a \in AddrSamples, n \in 0..MaxLen :
      \E drv \in EchoResponses("readfrom", a, 0, n) :
        /\ wire.prim # "none"
        /\ last = written
        /\ last' = CallRec("read_direct", a, 0, 0, "big", NoData, n, FALSE,
                     read_direct(a, n, drv))
        /\ UNCHANGED <<wire, written>>

NextEcho ==
    \/ EchoWriteByte
    \/ EchoWriteWord
    \/ EchoWriteBytes
    \/ EchoWriteDirect
    \/ EchoReadByte
    \/ EchoReadWord
    \/ EchoReadBytes
    \/ EchoReadDirect

SpecEcho == Init /\ [][NextEcho]_vars

(***************************************************************************)
(* Properties                                                              *)
(***************************************************************************)
AddressedMethods ==
    {"write_byte", "read_byte", "write_word", "read_word",
     "write_bytes", "read_bytes", "write_direct", "read_direct"}

DataMethods == {"write_bytes", "write_direct"}

AddrInRange(rec) == rec.device_addr \in 0..127

(* the driver reported a failure during the call *)
DriverFailed(rec) == \E j \in 1..Len(rec.calls) : rec.calls[j].fail

(* the values of a payload's elements, in order *)
ItemValues(data) == [j \in 1..Len(data.items) |-> data.items[j].val]

(* data is a bytes object or a list of byte values *)
IsByteData(data) ==
    /\ data.type \in {"bytes", "list"}
    /\ \A j \in 1..Len(data.items) :
          data.items[j].isint /\ data.items[j].val \in 0..255

(* data is neither a bytes object nor a list of integers *)
IsNoByteData(data) ==
    \/ data.type \notin {"bytes", "list"}
    \/ \E j \in 1..Len(data.items) : ~data.items[j].isint

(* section 7 of the specification: InvalidData is a payload that is        *)
(* neither a byte sequence nor convertible from an integer sequence, so    *)
(* both the isinstance failure and the failure of bytes() count            *)
IsInvalidData(rec) == rec.err \in {"InvalidData", "BytesConversion"}

(* the arguments of the call pass every check the method makes *)
ValidArgs(rec) ==
    \/ rec.method = "scan"
    \/ /\ rec.method \in AddressedMethods
       /\ AddrInRange(rec)
       /\ rec.method = "write_byte" => rec.value \in 0..255
       /\ rec.method = "write_word" => rec.value \in 0..65535
       /\ rec.method \in DataMethods => IsByteData(rec.data)

(* C1: each of the eight addressed operations called with a device address *)
(* outside [0,127] fails with InvalidAddress without invoking the driver,  *)
(* whatever its other arguments; with an address inside [0,127] it never   *)
(* fails with InvalidAddress.                                              *)
C1_InvalidAddress ==
    last.method \in AddressedMethods =>
        /\ ~AddrInRange(last) =>
              /\ last.raised = "ValueError"
              /\ last.err = "InvalidAddress"
              /\ last.calls = <<>>
        /\ AddrInRange(last) => last.err # "InvalidAddress"

C1_Witness ==
    /\ last.method = "write_direct"
    /\ last.device_addr = 128
    /\ last.data.type = "str"
    /\ last.err = "InvalidAddress"
    /\ last.calls = <<>>

(* C2: with a valid device address, write_byte accepts every value in      *)
(* [0,255] and write_word every value in [0,65535]; any other value fails  *)
(* with InvalidValue without invoking the driver.                          *)
C2_InvalidValue ==
    /\ (last.method = "write_byte" /\ AddrInRange(last)) =>
          IF last.value \in 0..255
          THEN last.err \in {"none", "TransportError"} /\ Len(last.calls) = 1
          ELSE /\ last.raised = "ValueError"
               /\ last.err = "InvalidValue"
               /\ last.calls = <<>>
    /\ (last.method = "write_word" /\ AddrInRange(last)) =>
          IF last.value \in 0..65535
          THEN last.err \in {"none", "TransportError"} /\ Len(last.calls) = 1
          ELSE /\ last.raised = "ValueError"
               /\ last.err = "InvalidValue"
               /\ last.calls = <<>>

C2_Witness ==
    /\ last.method = "write_word"
    /\ last.device_addr = 127
    /\ last.value = 65536
    /\ last.err = "InvalidValue"
    /\ last.calls = <<>>

(* C3: word round trip.  After a successful write_word(addr, reg, value,   *)
(* order) with order big or little, a read_word(addr, reg, order) to which *)
(* the driver returns the two bytes write_word handed to it returns value. *)
C3_WordRoundTrip ==
    ( /\ last.method = "read_word"
      /\ written.method = "write_word"
      /\ last.device_addr = written.device_addr
      /\ last.reg_addr = written.reg_addr
      /\ last.byteorder = written.byteorder
      /\ last.byteorder \in {"big", "little"}
      /\ last.calls # <<>>
      /\ ~DriverFailed(last)
      /\ last.calls[1].bytes = written.calls[1].buf )
    => /\ last.raised = "none"
       /\ last.ret.kind = "int"
       /\ last.ret.num = written.value

C3_Witness ==
    /\ last.method = "read_word"
    /\ written.method = "write_word"
    /\ written.value = 4660
    /\ last.byteorder = "little"
    /\ written.byteorder = "little"
    /\ last.device_addr = written.device_addr
    /\ last.reg_addr = written.reg_addr
    /\ last.calls # <<>>
    /\ last.calls[1].bytes = written.calls[1].buf
    /\ last.ret.num = 4660

(* C4: word packing.  write_word with order big hands the driver exactly   *)
(* the payload [value>>8, value mod 256] at addr:reg, with order little    *)
(* [value mod 256, value>>8]; read_word decodes the driver's bytes         *)
(* [b0, b1] as b0*256+b1 with order big and b1*256+b0 with order little,   *)
(* a result in [0,65535].                                                  *)
C4_WordPacking ==
    /\ (last.method = "write_word" /\ ValidArgs(last)
        /\ last.byteorder \in {"big", "little"}) =>
          /\ Len(last.calls) = 1
          /\ last.calls[1].prim = "writeto_mem"
          /\ last.calls[1].addr = last.device_addr
          /\ last.calls[1].reg = last.reg_addr
          /\ last.calls[1].buf =
                IF last.byteorder = "big"
                THEN <<last.value \div 256, last.value % 256>>
                ELSE <<last.value % 256, last.value \div 256>>
    /\ (last.method = "read_word" /\ AddrInRange(last) /\ ~DriverFailed(last)
        /\ last.byteorder \in {"big", "little"}) =>
          /\ last.ret.kind = "int"
          /\ last.ret.num =
                IF last.byteorder = "big"
                THEN last.calls[1].bytes[1] * 256 + last.calls[1].bytes[2]
                ELSE last.calls[1].bytes[2] * 256 + last.calls[1].bytes[1]
          /\ last.ret.num \in 0..65535

C4_Witness ==
    /\ last.method = "read_word"
    /\ last.byteorder = "little"
    /\ last.calls # <<>>
    /\ last.calls[1].bytes = <<205, 171>>
    /\ last.ret.num = 43981
    /\ written.method = "write_word"
    /\ written.byteorder = "little"
    /\ written.value = 43981
    /\ written.calls[1].buf = <<205, 171>>

(* C5: in every public operation, scan included, a failure the driver      *)
(* reports is surfaced to the caller as an error, and a diagnostic has     *)
(* been printed before the error reaches the caller.                       *)
C5_DiagnosticThenError ==
    DriverFailed(last) =>
        /\ last.raised = "OSError"
        /\ last.out # <<>>
        /\ \E j, k \in 1..Len(last.events) :
              j < k /\ last.events[j] = "print" /\ last.events[k] = "raise"

(* C6: no retry and no multi-step transaction.  Every call of every public *)
(* operation invokes the driver at most once: exactly once when the        *)
(* arguments pass validation, whether the driver succeeds or fails, and    *)
(* never otherwise.  A successful write_byte(addr, reg, value) issues one  *)
(* register write of the single byte value to register reg of device addr. *)
C6_SingleInvocation ==
    last.method # "none" =>
        /\ Len(last.calls) <= 1
        /\ ValidArgs(last) => Len(last.calls) = 1
        /\ (last.err \in {"InvalidAddress", "InvalidValue", "InvalidData",
                          "BytesConversion"}) => last.calls = <<>>
        /\ DriverFailed(last) => last.calls[Len(last.calls)].fail
        /\ (last.method = "write_byte" /\ last.raised = "none") =>
              /\ Len(last.calls) = 1
              /\ last.calls[1].prim = "writeto_mem"
              /\ last.calls[1].addr = last.device_addr
              /\ last.calls[1].reg = last.reg_addr
              /\ last.calls[1].buf = <<last.value>>

C6_Witness ==
    /\ last.method = "write_byte"
    /\ last.value = 255
    /\ Len(last.calls) = 1
    /\ last.calls[1].fail
    /\ last.calls[1].buf = <<255>>
    /\ last.raised = "OSError"

C8_ScanResult ==
    (last.method = "scan" /\ ~DriverFailed(last)) =>
        /\ Len(last.calls) = 1
        /\ last.raised = "none"
        /\ last.ret.kind = "list"
        /\ last.ret.elems = last.calls[1].bytes
        /\ ~last.verbose => last.out = <<>>

C8_Witness ==
    /\ last.method = "scan"
    /\ ~last.verbose
    /\ last.calls[1].bytes = <<60, 64>>
    /\ last.ret.elems = <<60, 64>>
    /\ last.out = <<>>

(* C9: with a valid address and n >= 0, read_bytes(addr, reg, n) and       *)
(* read_direct(addr, n) return exactly the n bytes the driver supplies,    *)
(* in order; with n = 0 they return an empty sequence without error; a     *)
(* write_bytes(addr, reg, data) followed by read_bytes(addr, reg,          *)
(* len(data)) against an echoing driver returns data.                      *)
C9_ReadBytes ==
    /\ (last.method \in {"read_bytes", "read_direct"} /\ AddrInRange(last)
        /\ ~DriverFailed(last)) =>
          /\ Len(last.calls) = 1
          /\ last.raised = "none"
          /\ last.ret.kind = "bytes"
          /\ last.ret.elems = last.calls[1].bytes
          /\ Len(last.ret.elems) = last.nbytes
          /\ last.nbytes = 0 => last.ret.elems = <<>>
    /\ ( /\ last.method = "read_bytes"
         /\ written.method = "write_bytes"
         /\ last.device_addr = written.device_addr
         /\ last.reg_addr = written.reg_addr
         /\ last.nbytes = Len(written.data.items)
         /\ last.calls # <<>>
         /\ ~DriverFailed(last)
         /\ last.calls[1].bytes = written.calls[1].buf )
       => last.ret.elems = ItemValues(written.data)

C9_Witness ==
    /\ last.method = "read_bytes"
    /\ written.method = "write_bytes"
    /\ written.data.type = "list"
    /\ ItemValues(written.data) = <<0, 255>>
    /\ last.device_addr = written.device_addr
    /\ last.reg_addr = written.reg_addr
    /\ last.nbytes = 2
    /\ last.calls # <<>>
    /\ last.calls[1].bytes = written.calls[1].buf
    /\ last.ret.elems = <<0, 255>>

(* C10: the byte-order tag is never validated.  write_word and read_word   *)
(* called with a tag other than big do not fail on its account and behave  *)
(* as with little: the low byte is packed first and decoded first.         *)
C10_UnknownOrderIsLittle ==
    /\ (last.method = "write_word" /\ ValidArgs(last) /\ last.byteorder # "big") =>
          /\ last.err \in {"none", "TransportError"}
          /\ Len(last.calls) = 1
          /\ last.calls[1].buf = <<last.value % 256, last.value \div 256>>
    /\ (last.method = "read_word" /\ AddrInRange(last) /\ last.byteorder # "big") =>
          /\ last.err \in {"none", "TransportError"}
          /\ ~DriverFailed(last) =>
                last.ret.num = last.calls[1].bytes[2] * 256 + last.calls[1].bytes[1]

C10_Witness ==
    /\ last.method = "read_word"
    /\ last.byteorder = "BIG"
    /\ last.calls # <<>>
    /\ last.calls[1].bytes = <<52, 18>>
    /\ last.ret.num = 4660
    /\ written.method = "write_word"
    /\ written.byteorder = "BIG"
    /\ written.value = 4660
    /\ written.calls[1].buf = <<52, 18>>

====
